---- MODULE Spec2Model ----
(***************************************************************************)
(* A model of the sql package: the connection URL builders and client      *)
(* constructors (src/sql/clients.py), the DatabaseClient session scopes    *)
(* and the DatabaseClientFactory registry (src/sql/model.py), and the      *)
(* DatabaseExplorer query helpers (src/sql/explorer.py).                   *)
(*                                                                         *)
(* Text (SQL, URLs, configuration values) is a sequence of tokens: a token *)
(* is either a run of URL-unreserved characters ("localhost", "users") or  *)
(* one piece of punctuation.  Concatenation of text is \o.                 *)
(***************************************************************************)
EXTENDS Integers, Sequences, FiniteSets, TLC

VARIABLES
    registry,    \* DatabaseClientFactory._registry, in dict (insertion) order
    regLog,      \* history: the register calls made so far, oldest first
    lastCreate,  \* observation of the latest DatabaseClientFactory.create call
    client,      \* the DatabaseClient the caller holds
    db,          \* the committed rows of table "users" in the backend
    sess,        \* a caller-held get_session() scope
    conn,        \* a caller-held get_connection() scope
    lastCall,    \* observation of the latest operation that has ended
    shadow       \* history: the rows that calls which returned normally have added

vars == <<registry, regLog, lastCreate, client, db, sess, conn, lastCall, shadow>>

(***************************************************************************)
(* Bounds                                                                  *)
(***************************************************************************)
MaxRegs == 2     \* register calls made after the package is loaded
MaxBatch == 2    \* parameter sets in one execute_many call

(***************************************************************************)
(* Python's None, kept apart from every text value.                        *)
(***************************************************************************)
None == <<"<None>">>

(***************************************************************************)
(* urllib.parse.quote_plus: unreserved runs are kept, a space becomes "+", *)
(* every other character becomes "%" followed by its two hex digits.       *)
(***************************************************************************)
HexOf(ch) ==
    CASE ch = "@" -> "40"
      [] ch = ":" -> "3A"
      [] ch = "/" -> "2F"
      [] ch = "=" -> "3D"
      [] ch = ";" -> "3B"
      [] ch = "%" -> "25"
      [] ch = "+" -> "2B"
      [] ch = "?" -> "3F"
      [] ch = "'" -> "27"

Punct == {"@", ":", "/", "=", ";", "%", "+", "?", "'"}

QuoteToken(tok) ==
    IF tok = " " THEN <<"+">>
    ELSE IF tok \in Punct THEN <<"%", HexOf(tok)>>
    ELSE <<tok>>

RECURSIVE quote_plus(_)
quote_plus(s) ==
    IF s = <<>> THEN <<>> ELSE QuoteToken(Head(s)) \o quote_plus(Tail(s))

(***************************************************************************)
(* Keyword arguments are records: DOMAIN kw is the set of keywords given.  *)
(***************************************************************************)
Arg(kw, key, default) == IF key \in DOMAIN kw THEN kw[key] ELSE default

DefaultDriver ==
    <<"ODBC", " ", "Driver", " ", "17", " ", "for", " ", "SQL", " ", "Server">>

(***************************************************************************)
(* SQLServerClient._build_connection_url                                   *)
(***************************************************************************)
SQLServerParams(self) ==
    <<  [key |-> <<"driver">>, value |-> self.driver],
        [key |-> <<"server">>, value |-> self.server],
        [key |-> <<"database">>, value |-> self.database] >>
    \o (IF self.trusted_connection
        THEN << [key |-> <<"trusted_connection">>, value |-> <<"yes">>] >>
        ELSE << [key |-> <<"uid">>, value |-> self.username],
                [key |-> <<"pwd">>, value |-> self.password] >>)
    \o (IF self.mars_connection
        THEN << [key |-> <<"Mars_Connection">>, value |-> <<"yes">>],
                [key |-> <<"MultipleActiveResultSets">>, value |-> <<"True">>] >>
        ELSE <<>>)
    \o << [key |-> <<"TrustServerCertificate">>, value |-> <<"yes">>],
          [key |-> <<"Connection", " ", "Timeout">>, value |-> <<"30">>],
          [key |-> <<"Command", " ", "Timeout">>, value |-> <<"30">>] >>

RECURSIVE ConnectionParts(_)
ConnectionParts(params) ==
    IF params = <<>> THEN <<>>
    ELSE (IF Head(params).value # None
          THEN << Head(params).key \o <<"=">> \o quote_plus(Head(params).value) >>
          ELSE <<>>)
         \o ConnectionParts(Tail(params))

RECURSIVE Join(_, _)
Join(sep, parts) ==
    IF parts = <<>> THEN <<>>
    ELSE IF Len(parts) = 1 THEN parts[1]
    ELSE parts[1] \o sep \o Join(sep, Tail(parts))

SQLServerUrl(self) ==
    <<"mssql", "+", "pyodbc", ":", "/", "/", "/", "?", "odbc_connect", "=">>
    \o quote_plus(Join(<<";">>, ConnectionParts(SQLServerParams(self))))

(***************************************************************************)
(* PostgreSQLClient / MySQLClient / SQLiteClient / GenericClient           *)
(* ._build_connection_url                                                  *)
(***************************************************************************)
PostgreSQLUrl(self) ==
    <<"postgresql", ":", "/", "/">> \o self.username \o <<":">>
    \o quote_plus(self.password) \o <<"@">> \o self.host \o <<":">>
    \o self.port \o <<"/">> \o self.database

MySQLUrl(self) ==
    <<"mysql", "+", "pymysql", ":", "/", "/">> \o self.username \o <<":">>
    \o quote_plus(self.password) \o <<"@">> \o self.host \o <<":">>
    \o self.port \o <<"/">> \o self.database
    \o <<"?", "charset", "=">> \o self.charset

SQLiteUrl(self) == <<"sqlite", ":", "/", "/", "/">> \o self.database_path

GenericUrl(self) == self.url

(***************************************************************************)
(* DatabaseType and the client classes.                                    *)
(***************************************************************************)
DatabaseType == {"sqlserver", "postgresql", "mysql", "sqlite"}

ClientClasses ==
    {"SQLServerClient", "PostgreSQLClient", "MySQLClient", "SQLiteClient"}

\* A db_type argument that is no key of the registry whatever was registered.
NotAMember == "oracle"

(***************************************************************************)
(* The signatures of the constructors: keywords without a default, and all *)
(* keywords.  Python raises TypeError when a required keyword is missing   *)
(* or an unknown one is given.                                             *)
(***************************************************************************)
Required(cls) ==
    CASE cls = "SQLServerClient" -> {"server", "database"}
      [] cls = "PostgreSQLClient" -> {"host", "database", "username", "password"}
      [] cls = "MySQLClient" -> {"host", "database", "username", "password"}
      [] cls = "SQLiteClient" -> {}
      [] cls = "GenericClient" -> {"url"}

Allowed(cls) ==
    CASE cls = "SQLServerClient" ->
            {"server", "database", "username", "password", "driver",
             "trusted_connection", "echo", "mars_connection"}
      [] cls = "PostgreSQLClient" ->
            {"host", "database", "username", "password", "port", "echo", "schema"}
      [] cls = "MySQLClient" ->
            {"host", "database", "username", "password", "port", "echo", "charset"}
      [] cls = "SQLiteClient" -> {"database_path", "echo"}
      [] cls = "GenericClient" -> {"url", "echo"}

Binds(cls, kw) == Required(cls) \subseteq DOMAIN kw /\ DOMAIN kw \subseteq Allowed(cls)

(***************************************************************************)
(* The attributes each __init__ stores before calling super().__init__.    *)
(***************************************************************************)
SQLServerSelf(kw) ==
    [server |-> kw.server, database |-> kw.database,
     username |-> Arg(kw, "username", None),
     password |-> Arg(kw, "password", None),
     driver |-> Arg(kw, "driver", DefaultDriver),
     trusted_connection |-> Arg(kw, "trusted_connection", FALSE),
     mars_connection |-> Arg(kw, "mars_connection", TRUE)]

PostgreSQLSelf(kw) ==
    [host |-> kw.host, database |-> kw.database, username |-> kw.username,
     password |-> kw.password, port |-> Arg(kw, "port", <<"5432">>),
     schema |-> Arg(kw, "schema", <<"public">>)]

MySQLSelf(kw) ==
    [host |-> kw.host, database |-> kw.database, username |-> kw.username,
     password |-> kw.password, port |-> Arg(kw, "port", <<"3306">>),
     charset |-> Arg(kw, "charset", <<"utf8mb4">>)]

SQLiteSelf(kw) ==
    [database_path |-> Arg(kw, "database_path", <<":", "memory", ":">>)]

GenericSelf(kw) == [url |-> kw.url]

\* self._build_connection_url(), dispatched on the class of self.
BuildConnectionUrl(cls, kw) ==
    CASE cls = "SQLServerClient" -> SQLServerUrl(SQLServerSelf(kw))
      [] cls = "PostgreSQLClient" -> PostgreSQLUrl(PostgreSQLSelf(kw))
      [] cls = "MySQLClient" -> MySQLUrl(MySQLSelf(kw))
      [] cls = "SQLiteClient" -> SQLiteUrl(SQLiteSelf(kw))
      [] cls = "GenericClient" -> GenericUrl(GenericSelf(kw))

(***************************************************************************)
(* A client object.  The engine is created lazily: create_engine opens no  *)
(* connection.  disposed records that close() has run engine.dispose().    *)
(***************************************************************************)
NoClient == [cls |-> "none", url |-> <<>>, disposed |-> FALSE]

\* DatabaseClient._create_engine: create_engine(connection_url, echo=...),
\* and the rest of DatabaseClient.__init__.
\*   outcome : "client" or the exception raised
\*   engines : the URLs handed to create_engine, in order
CreateEngine(cls, connection_url) ==
    [outcome |-> "client",
     client |-> [cls |-> cls, url |-> connection_url, disposed |-> FALSE],
     engines |-> <<connection_url>>]

\* cls(**kw): the arguments are bound, the attributes stored, and
\* DatabaseClient.__init__ builds the URL and the engine.
Construct(cls, kw) ==
    IF ~Binds(cls, kw)
    THEN [outcome |-> "TypeError", client |-> NoClient, engines |-> <<>>]
    ELSE CreateEngine(cls, BuildConnectionUrl(cls, kw))

(***************************************************************************)
(* DatabaseClientFactory                                                   *)
(***************************************************************************)
RegistryKeysAllTypes(reg) == <<"sqlserver", "postgresql", "mysql", "sqlite">>

RegistryKeys(reg) == [i \in 1..Len(reg) |-> reg[i].kind]

InRegistry(reg, db_type) == \E i \in 1..Len(reg) : reg[i].kind = db_type

RegistryGet(reg, db_type) ==
    reg[CHOOSE i \in 1..Len(reg) : reg[i].kind = db_type].cls

RegistrySetDefault(reg, db_type, client_class) ==
    IF InRegistry(reg, db_type) THEN reg
    ELSE Append(reg, [kind |-> db_type, cls |-> client_class])

\* cls._registry[db_type] = client_class   (a dict keeps a key's first position)
RegistrySet(reg, db_type, client_class) ==
    IF InRegistry(reg, db_type)
    THEN [i \in 1..Len(reg) |->
            IF reg[i].kind = db_type
            THEN [kind |-> db_type, cls |-> client_class] ELSE reg[i]]
    ELSE Append(reg, [kind |-> db_type, cls |-> client_class])

\* return client_class(**kwargs)
\*   ctor : the constructor calls made, in order
Instantiate(db_type, kw, client_class, made) ==
    [kind |-> db_type, kw |-> kw, outcome |-> made.outcome,
     available |-> <<>>, ctor |-> <<[cls |-> client_class, kw |-> kw]>>,
     client |-> made.client, engines |-> made.engines]

\* DatabaseClientFactory.create
\*   available : the kinds the error message lists, in order
FactoryCreate(reg, db_type, kw) ==
    IF ~InRegistry(reg, db_type)
    THEN [kind |-> db_type, kw |-> kw, outcome |-> "ValueError",
          available |-> RegistryKeys(reg), ctor |-> <<>>,
          client |-> NoClient, engines |-> <<>>]
    ELSE Instantiate(db_type, kw, RegistryGet(reg, db_type),
                     Construct(RegistryGet(reg, db_type), kw))

\* No create call yet.  The field at, which Create adds, is the number of
\* register calls made before the create call.
NoCreate ==
    [at |-> 0, kind |-> "none", kw |-> [echo |-> FALSE], outcome |-> "none",
     available |-> <<>>, ctor |-> <<>>, client |-> NoClient, engines |-> <<>>]

(***************************************************************************)
(* The keyword arguments the callers of this model pass.                   *)
(***************************************************************************)
Kwargs ==
    { [server |-> <<"db1">>, database |-> <<"app">>,
       username |-> <<"sa">>, password |-> <<"p", "@", "s", " ", "w">>],
      [server |-> <<"db1">>, database |-> <<"app">>, trusted_connection |-> TRUE],
      [server |-> <<"db1">>, database |-> <<"app">>, password |-> <<"pw">>],
      [server |-> <<"db1">>, database |-> <<"app">>, username |-> <<"sa">>],
      [host |-> <<"db1">>, database |-> <<"app">>,
       username |-> <<"u", ":", "x">>, password |-> <<"p", "/", "w">>],
      [database_path |-> <<":", "memory", ":">>] }

\* The db_type arguments of create, and the (db_type, class) pairs of register.
CreateArgs == {"sqlserver", "mysql", "sqlite", NotAMember}

RegisterArgs ==
    {"sqlserver", "sqlite"}
        \X {"SQLServerClient", "PostgreSQLClient", "SQLiteClient"}

(***************************************************************************)
(* Optional values other than text: Nothing is Python's None.              *)
(***************************************************************************)
Nothing == <<>>
Some(x) == <<x>>

(***************************************************************************)
(* The backend.  One table, users(id unique, name), as in src/app.py; its  *)
(* committed rows are kept in insertion order.  A statement is recognised  *)
(* by its literal pieces; the pieces between them are the interpolated     *)
(* names.  Values reach the backend only through the bound parameters.     *)
(***************************************************************************)
Hostile == "'; DROP TABLE users; --"
Ids == {"1", "2"}
Names == {"a", Hostile}
Values == Ids \cup Names
Tables == {"users"}
Columns == <<"id", "name">>
Rows == [id : Ids, name : Names]

SeqRange(q) == {q[i] : i \in 1..Len(q)}

UniqueIds(rows) == \A i, j \in 1..Len(rows) : rows[i].id = rows[j].id => i = j

TableStates ==
    {<<>>} \cup {<<r>> : r \in Rows}
           \cup {q \in {<<r1, r2>> : r1 \in Rows, r2 \in Rows} : UniqueIds(q)}

InsertTail == " (id, name) VALUES (:id, :name)"

\* The bind parameter named in the literal that ends a WHERE clause.
WhereTails ==
    { [text |-> " = :id_value", bind |-> "id_value", limit |-> FALSE],
      [text |-> " = :value LIMIT 1", bind |-> "value", limit |-> TRUE],
      [text |-> " = :n", bind |-> "n", limit |-> FALSE] }

TailOf(tok) == CHOOSE w \in WhereTails : w.text = tok

NoStatement ==
    [kind |-> "error", table |-> "", column |-> "", binds |-> {},
     proj |-> "", limit |-> FALSE, take |-> 0]

\* The limit arguments of find_all, and f"{int(limit)}".
Limits == {0, 1}

IntText(n) == CASE n = 0 -> "0" [] n = 1 -> "1" [] n = 2 -> "2"

TextInt(t) == CHOOSE n \in Limits : IntText(n) = t

Parse(sql) ==
    CASE Len(sql) = 5 /\ sql[1] \in {"SELECT * FROM ", "SELECT 1 FROM "}
            /\ sql[3] = " WHERE " /\ (\E w \in WhereTails : w.text = sql[5]) ->
            [kind |-> "select", table |-> sql[2], column |-> sql[4],
             binds |-> {TailOf(sql[5]).bind},
             proj |-> (IF sql[1] = "SELECT 1 FROM " THEN "1" ELSE "*"),
             limit |-> TailOf(sql[5]).limit,
             take |-> IF TailOf(sql[5]).limit THEN 1 ELSE 0]
      [] Len(sql) = 4 /\ sql[1] = "SELECT * FROM " /\ sql[3] = " LIMIT "
            /\ (\E n \in Limits : IntText(n) = sql[4]) ->
            [NoStatement EXCEPT !.kind = "scan", !.table = sql[2], !.proj = "*",
                                !.limit = TRUE, !.take = TextInt(sql[4])]
      [] Len(sql) = 2 /\ sql[1] = "SELECT * FROM " ->
            [NoStatement EXCEPT !.kind = "scan", !.table = sql[2], !.proj = "*"]
      [] Len(sql) = 2 /\ sql[1] = "SELECT COUNT(*) as cnt FROM " ->
            [NoStatement EXCEPT !.kind = "count", !.table = sql[2]]
      [] Len(sql) = 3 /\ sql[1] = "INSERT INTO " /\ sql[3] = InsertTail ->
            [NoStatement EXCEPT !.kind = "insert", !.table = sql[2],
                                !.binds = {"id", "name"}]
      [] OTHER -> NoStatement

\* The SQL dialect is the one the URL scheme selects (clients.py builds
\* "mssql+pyodbc", "postgresql", "mysql+pymysql" and "sqlite" URLs).
Dialect(c) == Head(c.url)

\* Transact-SQL has no LIMIT clause: SQL Server rejects the statement.
AcceptsLimit(dialect) == dialect # "mssql"

RECURSIVE Matching(_, _, _)
Matching(rows, column, value) ==
    IF rows = <<>> THEN <<>>
    ELSE (IF Head(rows)[column] = value THEN <<Head(rows)>> ELSE <<>>)
         \o Matching(Tail(rows), column, value)

Take(q, n) == IF Len(q) <= n THEN q ELSE SubSeq(q, 1, n)

Project(proj, rows) ==
    IF proj = "1" THEN [i \in 1..Len(rows) |-> <<"1">>]
    ELSE [i \in 1..Len(rows) |-> <<rows[i].id, rows[i].name>>]

NoResult == [returns_rows |-> FALSE, keys |-> <<>>, rows |-> <<>>]

\* The exception the driver raises for a statement, "" when it runs.
StatementError(dialect, rows, p, st) ==
    CASE st.kind = "error" -> "ProgrammingError"
      [] st.limit /\ ~AcceptsLimit(dialect) -> "ProgrammingError"
      [] st.table \notin Tables -> "ProgrammingError"
      [] st.kind = "select" /\ st.column \notin SeqRange(Columns) -> "ProgrammingError"
      [] ~(st.binds \subseteq DOMAIN p) -> "StatementError"
      [] st.kind = "insert" /\ (\E i \in 1..Len(rows) : rows[i].id = p.id) ->
            "IntegrityError"
      [] OTHER -> ""

\* The rows of a SELECT ... WHERE column = :bind [LIMIT 1].
Selected(rows, p, st) ==
    IF st.limit
    THEN Take(Matching(rows, st.column, p[CHOOSE b \in st.binds : TRUE]), st.take)
    ELSE Matching(rows, st.column, p[CHOOSE b \in st.binds : TRUE])

\* What a statement that runs gives back.
StatementResult(rows, p, st) ==
    CASE st.kind = "insert" ->
            [err |-> "", result |-> NoResult,
             insert |-> <<[id |-> p.id, name |-> p.name]>>]
      [] st.kind = "count" ->
            [err |-> "",
             result |-> [returns_rows |-> TRUE, keys |-> <<"cnt">>,
                         rows |-> <<<<Len(rows)>>>>],
             insert |-> <<>>]
      [] st.kind = "scan" ->
            [err |-> "",
             result |-> [returns_rows |-> TRUE, keys |-> Columns,
                         rows |-> Project("*", IF st.limit THEN Take(rows, st.take)
                                               ELSE rows)],
             insert |-> <<>>]
      [] OTHER ->
            [err |-> "",
             result |-> [returns_rows |-> TRUE,
                         keys |-> (IF st.proj = "1" THEN <<"1">> ELSE Columns),
                         rows |-> Project(st.proj, Selected(rows, p, st))],
             insert |-> <<>>]

RunStatement(rows, p, st, err) ==
    IF err # "" THEN [err |-> err, result |-> NoResult, insert |-> <<>>]
    ELSE StatementResult(rows, p, st)

RunParsed(dialect, rows, p, st) ==
    RunStatement(rows, p, st, StatementError(dialect, rows, p, st))

\* session.execute(text(sql), p) on the rows the session sees:
\*   err    : "" or the exception the driver raises
\*   result : the Result object (its keys and its rows, in order)
\*   insert : the rows the statement adds to the session's transaction
Run(dialect, rows, sql, p) == RunParsed(dialect, rows, p, Parse(sql))

(***************************************************************************)
(* DatabaseClient.get_session: what the context manager does once the body *)
(* of the with statement has ended.                                        *)
(*   body_err   : "" when the body ended normally, else the exception      *)
(*   commit_err : "" when session.commit() would succeed, else what it     *)
(*                raises                                                   *)
(* "except Exception" does not catch KeyboardInterrupt (a BaseException).  *)
(***************************************************************************)
IsException(e) == e # "KeyboardInterrupt"

\* try: yield session; session.commit()
SessionTry(body_err, commit_err) ==
    IF body_err # "" THEN [events |-> <<>>, err |-> body_err, committed |-> FALSE]
    ELSE IF commit_err # ""
         THEN [events |-> <<"commit!">>, err |-> commit_err, committed |-> FALSE]
         ELSE [events |-> <<"commit">>, err |-> "", committed |-> TRUE]

SessionExceptNoRollback(tried) == tried

\* except Exception: session.rollback(); raise
SessionExcept(tried) ==
    IF tried.err # "" /\ IsException(tried.err)
    THEN [tried EXCEPT !.events = @ \o <<"rollback">>]
    ELSE tried

SessionFinallyLeak(handled) ==
    [events |-> IF handled.err = "" THEN handled.events \o <<"close">>
                ELSE handled.events,
     raised |-> handled.err,
     committed |-> handled.committed]

\* finally: session.close()
SessionFinally(handled) ==
    [events |-> handled.events \o <<"close">>,
     raised |-> handled.err,
     committed |-> handled.committed]

GetSessionExit(body_err, commit_err) ==
    SessionFinally(SessionExcept(SessionTry(body_err, commit_err)))

\* DatabaseClient.get_connection: the finally clause.
GetConnectionExit(body_err) == [events |-> <<"close">>, raised |-> body_err]

EmptyMap == [k \in {} |-> ""]

\* "params or {}"
OrEmpty(params) ==
    IF params = Nothing THEN EmptyMap
    ELSE IF DOMAIN params[1] = {} THEN EmptyMap ELSE params[1]

Leaves(raised) == <<IF raised = "" THEN "return" ELSE "raise">>

(***************************************************************************)
(* DatabaseClient.execute_query on a backend holding rows.                 *)
(*   sql, bound : what session.execute receives                            *)
(*   events     : the session calls made, in order, ending with how the    *)
(*                call leaves: "return" or "raise"                         *)
(*   added      : the rows the statement added to the transaction          *)
(*   after      : the committed rows when the call has left                *)
(***************************************************************************)
QueryLeftDirty(rows, query, bound, r, exit) ==
    [sql |-> query, bound |-> bound,
     events |-> <<"Session", IF r.err = "" THEN "execute" ELSE "execute!">>
                \o exit.events \o Leaves(exit.raised),
     raised |-> exit.raised,
     result |-> r.result,
     added |-> r.insert,
     after |-> rows \o r.insert]

QueryLeftLazy(rows, query, bound, r, exit) ==
    [sql |-> query, bound |-> bound,
     events |-> <<"Session", IF r.err = "" THEN "execute" ELSE "execute!">>
                \o Leaves(exit.raised) \o exit.events,
     raised |-> exit.raised,
     result |-> r.result,
     added |-> r.insert,
     after |-> IF exit.committed THEN rows \o r.insert ELSE rows]

QueryLeft(rows, query, bound, r, exit) ==
    [sql |-> query, bound |-> bound,
     events |-> <<"Session", IF r.err = "" THEN "execute" ELSE "execute!">>
                \o exit.events \o Leaves(exit.raised),
     raised |-> exit.raised,
     result |-> r.result,
     added |-> r.insert,
     after |-> IF exit.committed THEN rows \o r.insert ELSE rows]

QueryRan(rows, query, bound, r, commit_err) ==
    QueryLeft(rows, query, bound, r, GetSessionExit(r.err, commit_err))

ExecuteQueryOutcome(c, rows, query, params, commit_err) ==
    QueryRan(rows, query, OrEmpty(params),
             Run(Dialect(c), rows, query, OrEmpty(params)), commit_err)

(***************************************************************************)
(* DatabaseClient.execute_many: the loop runs in one session and stops at  *)
(* the first execution that raises.                                        *)
(***************************************************************************)
RECURSIVE ExecuteLoop(_, _, _, _, _)
RECURSIVE LoopStep(_, _, _, _, _, _)
LoopStep(dialect, rows, pending, query, params_list, r) ==
    IF r.err # ""
    THEN [err |-> r.err, pending |-> pending, events |-> <<"execute!">>]
    ELSE [ExecuteLoop(dialect, rows, pending \o r.insert, query, Tail(params_list))
            EXCEPT !.events = <<"execute">> \o @]

ExecuteLoop(dialect, rows, pending, query, params_list) ==
    IF params_list = <<>> THEN [err |-> "", pending |-> pending, events |-> <<>>]
    ELSE LoopStep(dialect, rows, pending, query, params_list,
                  Run(dialect, rows \o pending, query, Head(params_list)))

ManyLeftAutocommit(rows, query, loop, exit) ==
    [sql |-> query, bound |-> EmptyMap,
     events |-> <<"Session">> \o loop.events \o exit.events \o Leaves(exit.raised),
     raised |-> exit.raised,
     result |-> NoResult,
     added |-> loop.pending,
     after |-> rows \o loop.pending]

ManyLeft(rows, query, loop, exit) ==
    [sql |-> query, bound |-> EmptyMap,
     events |-> <<"Session">> \o loop.events \o exit.events \o Leaves(exit.raised),
     raised |-> exit.raised,
     result |-> NoResult,
     added |-> loop.pending,
     after |-> IF exit.committed THEN rows \o loop.pending ELSE rows]

ManyRan(rows, query, loop, commit_err) ==
    ManyLeft(rows, query, loop, GetSessionExit(loop.err, commit_err))

ExecuteManyOutcome(c, rows, query, params_list, commit_err) ==
    ManyRan(rows, query, ExecuteLoop(Dialect(c), rows, <<>>, query, params_list),
            commit_err)

(***************************************************************************)
(* DatabaseExplorer.  Every helper goes through client.execute_query and   *)
(* reads the Result it returns.                                            *)
(*   query, params : what the helper hands to client.execute_query         *)
(*   ret           : what the helper returns (when raised = "")            *)
(***************************************************************************)
\* dict(zip(keys, row))
DictZip(keys, row) ==
    [k \in SeqRange(keys) |->
        row[CHOOSE i \in 1..Len(keys) :
                keys[i] = k /\ \A j \in 1..Len(keys) : keys[j] = k => j <= i]]

\* What a helper knows when client.execute_query has returned or raised.
Returned(query, params, out) ==
    [query |-> query, params |-> params, sql |-> out.sql, bound |-> out.bound,
     events |-> out.events, raised |-> out.raised, ret |-> Nothing,
     added |-> out.added, after |-> out.after]

\* DatabaseExplorer.execute
ExecuteReturn(base, result) ==
    IF base.raised # "" THEN base ELSE [base EXCEPT !.ret = Some(result)]

ExecuteVia(query, params, out) ==
    ExecuteReturn(Returned(query, params, out), out.result)

ExplorerExecute(c, rows, query, params, commit_err) ==
    ExecuteVia(query, params, ExecuteQueryOutcome(c, rows, query, params, commit_err))

\* DatabaseExplorer.fetch_all: rows = result.fetchall(); if not rows: return []
\* keys = result.keys(); return [dict(zip(keys, row)) for row in rows]
FetchAllRead(base, result) ==
    IF base.raised # "" THEN base
    ELSE IF ~result.returns_rows
    THEN [base EXCEPT !.events = @ \o <<"fetchall!", "raise">>,
                      !.raised = "ResourceClosedError"]
    ELSE IF result.rows = <<>>
    THEN [base EXCEPT !.events = @ \o <<"fetchall", "return">>, !.ret = Some(<<>>)]
    ELSE [base EXCEPT !.events = @ \o <<"fetchall", "keys", "return">>,
                      !.ret = Some([i \in 1..Len(result.rows) |->
                                        DictZip(result.keys, result.rows[i])])]

FetchAllVia(query, params, out) ==
    FetchAllRead(Returned(query, params, out), out.result)

FetchAll(c, rows, query, params, commit_err) ==
    FetchAllVia(query, params, ExecuteQueryOutcome(c, rows, query, params, commit_err))

\* DatabaseExplorer.fetch_one: row = result.fetchone(); if row is None: return
\* None; return dict(zip(result.keys(), row))
FetchOneRead(base, result) ==
    IF base.raised # "" THEN base
    ELSE IF ~result.returns_rows
    THEN [base EXCEPT !.events = @ \o <<"fetchone!", "raise">>,
                      !.raised = "ResourceClosedError"]
    ELSE IF result.rows = <<>>
    THEN [base EXCEPT !.events = @ \o <<"fetchone", "return">>, !.ret = Nothing]
    ELSE [base EXCEPT !.events = @ \o <<"fetchone", "keys", "return">>,
                      !.ret = Some(DictZip(result.keys, Head(result.rows)))]

FetchOneVia(query, params, out) ==
    FetchOneRead(Returned(query, params, out), out.result)

FetchOne(c, rows, query, params, commit_err) ==
    FetchOneVia(query, params, ExecuteQueryOutcome(c, rows, query, params, commit_err))

FindByIdRequestInterpolated(table, id_column, id_value) ==
    [query |-> <<"SELECT * FROM ", table, " WHERE ", id_column, " = '", id_value, "'">>,
     params |-> Nothing]

\* The f-string and the parameter mapping of find_by_id, and of exists.
FindByIdRequest(table, id_column, id_value) ==
    [query |-> <<"SELECT * FROM ", table, " WHERE ", id_column, " = :id_value">>,
     params |-> Some([id_value |-> id_value])]

ExistsRequest(table, column, value) ==
    [query |-> <<"SELECT 1 FROM ", table, " WHERE ", column, " = :value LIMIT 1">>,
     params |-> Some([value |-> value])]

\* DatabaseExplorer.find_by_id
FindById(c, rows, table, id_column, id_value, commit_err) ==
    FetchOne(c, rows, FindByIdRequest(table, id_column, id_value).query,
             FindByIdRequest(table, id_column, id_value).params, commit_err)

\* return result is not None
ExistsReturn(result) ==
    IF result.raised # "" THEN result
    ELSE [result EXCEPT !.ret = Some(result.ret # Nothing)]

\* DatabaseExplorer.exists
Exists(c, rows, table, column, value, commit_err) ==
    ExistsReturn(FetchOne(c, rows, ExistsRequest(table, column, value).query,
                          ExistsRequest(table, column, value).params, commit_err))

\* The query of find_all: the f-string, and the LIMIT appended when limit
\* is not None.
FindAllRequest(table, limit) ==
    [query |-> <<"SELECT * FROM ", table>>
               \o (IF limit = Nothing THEN <<>>
                   ELSE <<" LIMIT ", IntText(limit[1])>>),
     params |-> Nothing]

\* DatabaseExplorer.find_all
FindAll(c, rows, table, limit, commit_err) ==
    FetchAll(c, rows, FindAllRequest(table, limit).query,
             FindAllRequest(table, limit).params, commit_err)

\* The f-string of count; fetch_one is called without params.
CountRequest(table) ==
    [query |-> <<"SELECT COUNT(*) as cnt FROM ", table>>, params |-> Nothing]

CountReturnRowPresent(result) ==
    IF result.raised # "" THEN result
    ELSE [result EXCEPT !.ret = Some(IF result.ret # Nothing THEN 1 ELSE 0)]

\* return result["cnt"] if result else 0
CountReturn(result) ==
    IF result.raised # "" THEN result
    ELSE IF result.ret = Nothing \/ DOMAIN result.ret[1] = {}
    THEN [result EXCEPT !.ret = Some(0)]
    ELSE IF "cnt" \in DOMAIN result.ret[1]
    THEN [result EXCEPT !.ret = Some(result.ret[1]["cnt"])]
    ELSE [result EXCEPT !.events = @ \o <<"raise">>, !.raised = "KeyError",
                        !.ret = Nothing]

\* DatabaseExplorer.count
ExplorerCount(c, rows, table, commit_err) ==
    CountReturn(FetchOne(c, rows, CountRequest(table).query,
                         CountRequest(table).params, commit_err))

(***************************************************************************)
(* State                                                                   *)
(***************************************************************************)
NoCall ==
    [op |-> "none", table |-> "", column |-> "", value |-> "", arg |-> <<>>,
     query |-> <<>>, params |-> Nothing, sql |-> <<>>, bound |-> EmptyMap,
     events |-> <<>>, raised |-> "", ret |-> Nothing,
     before |-> <<>>, after |-> <<>>, disposed |-> FALSE, after_failure |-> FALSE]

\* A caller-held scope: not entered, or open with the session calls made so
\* far and the rows its transaction has added.
NoScope == [state |-> "none", pending |-> <<>>, events |-> <<>>]

\* The registry once the decorators of src/sql/clients.py have run.
ImportLog ==
    << [kind |-> "sqlserver", cls |-> "SQLServerClient"],
       [kind |-> "postgresql", cls |-> "PostgreSQLClient"],
       [kind |-> "mysql", cls |-> "MySQLClient"],
       [kind |-> "sqlite", cls |-> "SQLiteClient"] >>

RECURSIVE Replay(_, _)
Replay(reg, log) ==
    IF log = <<>> THEN reg
    ELSE Replay(RegistrySet(reg, Head(log).kind, Head(log).cls), Tail(log))

\* The clients the execution model starts from: one per dialect in use.
StartClients ==
    { Construct("SQLServerClient",
                [server |-> <<"db1">>, database |-> <<"app">>,
                 trusted_connection |-> TRUE]).client,
      Construct("PostgreSQLClient",
                [host |-> <<"db1">>, database |-> <<"app">>,
                 username |-> <<"u">>, password |-> <<"p", "/", "w">>]).client,
      Construct("SQLiteClient", [database_path |-> <<":", "memory", ":">>]).client }

\* The table is empty (src/app.py creates it) or holds a row already.
StartTables == {<<>>, <<[id |-> "1", name |-> "a"]>>}

\* model.py has been loaded: the registry is the empty dict of line 159, or
\* the package has been imported and the four decorators have run.
InitFactory ==
    /\ regLog \in {<<>>, ImportLog}
    /\ registry = Replay(<<>>, regLog)
    /\ lastCreate = NoCreate
    /\ client = NoClient
    /\ db = <<>>
    /\ shadow = <<>>
    /\ sess = NoScope
    /\ conn = NoScope
    /\ lastCall = NoCall

\* A client has been constructed and no operation has run on it yet.
InitWith(clients, tables) ==
    /\ regLog = ImportLog
    /\ registry = Replay(<<>>, regLog)
    /\ lastCreate = NoCreate
    /\ client \in clients
    /\ db \in tables
    /\ shadow = db
    /\ sess = NoScope
    /\ conn = NoScope
    /\ lastCall = NoCall

\* The client of src/app.py, an in-memory SQLite database.
InitClient ==
    InitWith({c \in StartClients : c.cls = "SQLiteClient"}, StartTables)

\* A client of any dialect.
InitExplorer == InitWith(StartClients, StartTables)

(***************************************************************************)
(* Factory actions                                                         *)
(***************************************************************************)
\* @DatabaseClientFactory.register(db_type) applied to client_class
Register(db_type, client_class) ==
    /\ Len(regLog) < MaxRegs + (IF Len(regLog) >= Len(ImportLog)
                                   /\ SubSeq(regLog, 1, Len(ImportLog)) = ImportLog
                                THEN Len(ImportLog) ELSE 0)
    /\ registry' = RegistrySet(registry, db_type, client_class)
    /\ regLog' = Append(regLog, [kind |-> db_type, cls |-> client_class])
    /\ UNCHANGED <<lastCreate, client, db, sess, conn, lastCall, shadow>>

\* client = DatabaseClientFactory.create(db_type, **kw); the caller creates
\* until it holds a client.
Create(db_type, kw) ==
    /\ client = NoClient
    /\ lastCreate' = [at |-> Len(regLog)] @@ FactoryCreate(registry, db_type, kw)
    /\ client' = IF lastCreate'.outcome = "client" THEN lastCreate'.client ELSE client
    /\ UNCHANGED <<registry, regLog, db, sess, conn, lastCall, shadow>>

NextFactory ==
    \/ \E r \in RegisterArgs : Register(r[1], r[2])
    \/ \E db_type \in CreateArgs, kw \in Kwargs : Create(db_type, kw)

FactorySpec == InitFactory /\ [][NextFactory]_vars

(***************************************************************************)
(* The URL builders on their own: the package is imported and one client   *)
(* is created from a configuration whose text fields may hold reserved     *)
(* characters.                                                             *)
(***************************************************************************)
\* What a text field of a configuration holds.
FieldTexts ==
    {<<"db1">>, <<"a", "@", "b">>, <<"a", ":", "b">>, <<"a", "/", "b">>,
     <<"a", " ", "b">>}

\* The keyword arguments per kind: every required text field, and for
\* MySQL the charset as well.
UrlConfigs(db_type) ==
    CASE db_type = "sqlserver" ->
            [server : FieldTexts, database : FieldTexts,
             username : FieldTexts, password : FieldTexts]
      [] db_type = "postgresql" ->
            [host : FieldTexts, database : FieldTexts,
             username : FieldTexts, password : FieldTexts]
      [] db_type = "mysql" ->
            [host : FieldTexts, database : FieldTexts,
             username : {<<"u">>, <<"a", "@", "b">>}, password : FieldTexts,
             charset : {<<"utf8mb4">>, <<"a", "/", "b">>, <<"a", " ", "b">>}]

UrlKinds == {"sqlserver", "postgresql", "mysql"}

InitUrl == InitWith({NoClient}, {<<>>})

NextUrl == \E db_type \in UrlKinds : \E kw \in UrlConfigs(db_type) : Create(db_type, kw)

UrlSpec == InitUrl /\ [][NextUrl]_vars

(***************************************************************************)
(* Properties of the factory                                               *)
(***************************************************************************)
\* The register calls that preceded the latest create call.
LogAtCreate == SubSeq(regLog, 1, lastCreate.at)

KindsIn(log) == {log[i].kind : i \in 1..Len(log)}

\* The class given by the most recent register call for db_type.
LastOf(log, db_type) ==
    log[CHOOSE i \in 1..Len(log) :
            /\ log[i].kind = db_type
            /\ \A j \in (i + 1)..Len(log) : log[j].kind # db_type].cls

NoDuplicates(q) == \A i, j \in 1..Len(q) : q[i] = q[j] => i = j

\* C6: create with a kind absent from the registry raises the
\* unsupported-backend error (ValueError), its message lists every kind
\* registered at that moment, no constructor runs and no engine is made;
\* with a kind present, exactly one constructor call is made, of a class
\* registered for that kind, with the keyword arguments supplied.
C6_CreateLooksUpRegistry ==
    lastCreate.kind # "none" =>
        IF lastCreate.kind \notin KindsIn(LogAtCreate)
        THEN /\ lastCreate.outcome = "ValueError"
             /\ SeqRange(lastCreate.available) = KindsIn(LogAtCreate)
             /\ NoDuplicates(lastCreate.available)
             /\ lastCreate.ctor = <<>>
             /\ lastCreate.engines = <<>>
             /\ lastCreate.client = NoClient
        ELSE /\ lastCreate.outcome # "ValueError"
             /\ Len(lastCreate.ctor) = 1
             /\ \E i \in 1..Len(LogAtCreate) :
                    LogAtCreate[i] = [kind |-> lastCreate.kind,
                                      cls |-> lastCreate.ctor[1].cls]
             /\ lastCreate.ctor[1].kw = lastCreate.kw

\* A create call for an unregistered kind while two kinds are registered.
C6_Witness ==
    /\ lastCreate.outcome = "ValueError"
    /\ Len(lastCreate.available) >= 2

\* C7: the registry holds, for every kind ever registered, the class of the
\* most recent register call for it (and nothing else), and create
\* constructs the class of the most recent register call for its kind.
C7_LastWriteWins ==
    /\ KindsIn(registry) = KindsIn(regLog)
    /\ NoDuplicates(RegistryKeys(registry))
    /\ \A k \in KindsIn(regLog) : RegistryGet(registry, k) = LastOf(regLog, k)
    /\ (lastCreate.kind \in KindsIn(LogAtCreate) =>
            /\ Len(lastCreate.ctor) = 1
            /\ lastCreate.ctor[1].cls = LastOf(LogAtCreate, lastCreate.kind))

\* A create call for a kind that was registered twice, with two classes.
C7_Witness ==
    /\ lastCreate.outcome = "client"
    /\ \E i, j \in 1..Len(LogAtCreate) :
            /\ i < j
            /\ LogAtCreate[i].kind = lastCreate.kind
            /\ LogAtCreate[j].kind = lastCreate.kind
            /\ LogAtCreate[i].cls # LogAtCreate[j].cls
            /\ lastCreate.ctor[1].cls = LogAtCreate[j].cls

\* The SQLServerClient constructor ran in explicit-credentials mode without
\* a username or without a password.
MissingCredential ==
    /\ Len(lastCreate.ctor) = 1
    /\ lastCreate.ctor[1].cls = "SQLServerClient"
    /\ Binds("SQLServerClient", lastCreate.kw)
    /\ ~SQLServerSelf(lastCreate.kw).trusted_connection
    /\ \/ SQLServerSelf(lastCreate.kw).username = None
       \/ SQLServerSelf(lastCreate.kw).password = None

\* C8: constructing a SQLServer client in explicit-credentials mode with the
\* username or the password missing fails with a configuration error before
\* any URL is handed to the driver and before any engine is made.
C8_MissingCredentialFailsFast ==
    MissingCredential =>
        /\ lastCreate.outcome = "ConfigurationError"
        /\ lastCreate.engines = <<>>
        /\ lastCreate.client = NoClient

(***************************************************************************)
(* The statements and parameters the callers of this model pass.           *)
(***************************************************************************)
InsertSql == <<"INSERT INTO ", "users", InsertTail>>
BadSql == <<"SELEC">>
SelectByName == <<"SELECT * FROM ", "users", " WHERE ", "name", " = :n">>
ScanSql == <<"SELECT * FROM ", "users">>

\* The rows the callers insert.
InsertParams == {[id |-> "1", name |-> Hostile], [id |-> "2", name |-> "a"]}

\* A parameter mapping that lacks the :name bind of InsertSql.
ShortParams == [id |-> "1"]

Calls ==
    {[query |-> InsertSql, params |-> Some(p)] : p \in InsertParams}
    \cup { [query |-> InsertSql, params |-> Some(ShortParams)],
           [query |-> BadSql, params |-> Nothing],
           [query |-> ScanSql, params |-> Nothing] }

RECURSIVE SeqsUpTo(_, _)
SeqsUpTo(S, n) ==
    IF n = 0 THEN {<<>>}
    ELSE LET shorter == SeqsUpTo(S, n - 1)
         IN  shorter \cup {Append(q, x) : q \in shorter, x \in S}

Batches == SeqsUpTo(InsertParams, MaxBatch)

CommitErrors == {"", "OperationalError"}
BodyErrors == {"RuntimeError", "KeyboardInterrupt"}

Observed(op, query, params, out, ret) ==
    [op |-> op, table |-> "", column |-> "", value |-> "", arg |-> <<>>,
     query |-> query, params |-> params, sql |-> out.sql,
     bound |-> out.bound, events |-> out.events, raised |-> out.raised,
     ret |-> ret, before |-> db, after |-> db', disposed |-> client.disposed,
     after_failure |-> lastCall.raised # ""]

\* The observation of a caller-held scope that has been left.
ScopeLeft(op, events, raised) ==
    [NoCall EXCEPT !.op = op, !.events = events \o Leaves(raised),
                   !.raised = raised, !.before = db, !.after = db',
                   !.disposed = client.disposed, !.after_failure = lastCall.raised # ""]

(***************************************************************************)
(* Client actions                                                          *)
(***************************************************************************)
\* A call on the client has ended: what it leaves behind.
CallEnds(op, query, params, out, ret) ==
    /\ db' = out.after
    /\ shadow' = IF out.raised = "" THEN shadow \o out.added ELSE shadow
    /\ lastCall' = Observed(op, query, params, out, ret)
    /\ UNCHANGED <<registry, regLog, lastCreate, client, sess, conn>>

QueryEnds(query, params, out) ==
    CallEnds("execute_query", query, params, out,
             IF out.raised = "" THEN Some(out.result) ELSE Nothing)

\* client.execute_query(query, params)
ExecuteQuery(query, params, commit_err) ==
    QueryEnds(query, params,
              ExecuteQueryOutcome(client, db, query, params, commit_err))

\* client.execute_many(query, params_list)
ExecuteMany(query, params_list, commit_err) ==
    CallEnds("execute_many", query, params_list,
             ExecuteManyOutcome(client, db, query, params_list, commit_err), Nothing)

\* with client.get_session() as session:   -- session = self.Session()
GetSessionEnter ==
    /\ sess.state = "none"
    /\ sess' = [state |-> "open", pending |-> <<>>, events |-> <<"Session">>]
    /\ UNCHANGED <<registry, regLog, lastCreate, client, db, conn, lastCall, shadow>>

\* The caller-held session scope is left.
SessionEnds(events, exit) ==
    /\ sess' = NoScope
    /\ db' = IF exit.committed THEN db \o sess.pending ELSE db
    /\ shadow' = IF exit.raised = "" THEN shadow \o sess.pending ELSE shadow
    /\ lastCall' = ScopeLeft("get_session", events \o exit.events, exit.raised)
    /\ UNCHANGED <<registry, regLog, lastCreate, client, conn>>

SessionExecuted(r) ==
    IF r.err = ""
    THEN /\ sess' = [sess EXCEPT !.pending = @ \o r.insert,
                                 !.events = @ \o <<"execute">>]
         /\ UNCHANGED <<registry, regLog, lastCreate, client, db, conn, lastCall, shadow>>
    ELSE SessionEnds(sess.events \o <<"execute!">>, GetSessionExit(r.err, ""))

\* session.execute(text(query), p) in the body of the with statement; an
\* exception leaves the body and the scope.
SessionExecute(query, p) ==
    /\ sess.state = "open"
    /\ SessionExecuted(Run(Dialect(client), db \o sess.pending, query, p))

\* The rows of a transaction whose ids another session committed in the
\* meantime make the commit fail.
Conflict(rows, pending) ==
    \E i \in 1..Len(rows), j \in 1..Len(pending) : rows[i].id = pending[j].id

\* The body of the with statement ends normally.
SessionLeave(commit_err) ==
    /\ sess.state = "open"
    /\ SessionEnds(sess.events,
                   GetSessionExit("", IF Conflict(db, sess.pending)
                                      THEN "IntegrityError" ELSE commit_err))

\* The body of the with statement raises.
SessionRaise(body_err) ==
    /\ sess.state = "open"
    /\ SessionEnds(sess.events, GetSessionExit(body_err, ""))

\* with client.get_connection() as connection:  -- self.engine.connect(),
\* which raises, before the try, when the backend cannot be reached.
GetConnectionEnter(reachable) ==
    /\ conn.state = "none"
    /\ IF reachable
       THEN /\ conn' = [state |-> "open", pending |-> <<>>, events |-> <<"connect">>]
            /\ UNCHANGED <<db, lastCall>>
       ELSE /\ conn' = conn
            /\ db' = db
            /\ lastCall' = ScopeLeft("get_connection", <<"connect!">>, "OperationalError")
    /\ UNCHANGED <<registry, regLog, lastCreate, client, sess, shadow>>

ConnectionEnds(exit) ==
    /\ conn' = NoScope
    /\ db' = db
    /\ lastCall' = ScopeLeft("get_connection", conn.events \o exit.events, exit.raised)
    /\ UNCHANGED <<registry, regLog, lastCreate, client, sess, shadow>>

\* The body of the with statement ends, normally (body_err = "") or not.
ConnectionLeave(body_err) ==
    /\ conn.state = "open"
    /\ ConnectionEnds(GetConnectionExit(body_err))

\* client.close(): self.engine.dispose().  dispose() closes the pooled
\* connections and leaves the engine able to open new ones.
Close ==
    /\ client' = [client EXCEPT !.disposed = TRUE]
    /\ UNCHANGED <<registry, regLog, lastCreate, db, sess, conn, lastCall, shadow>>

NextClient ==
    \/ \E c \in Calls, e \in CommitErrors : ExecuteQuery(c.query, c.params, e)
    \/ \E b \in Batches, e \in CommitErrors : ExecuteMany(InsertSql, b, e)
    \/ GetSessionEnter
    \/ \E p \in InsertParams \cup {ShortParams} : SessionExecute(InsertSql, p)
    \/ \E e \in CommitErrors : SessionLeave(e)
    \/ \E e \in BodyErrors : SessionRaise(e)
    \/ \E reachable \in BOOLEAN : GetConnectionEnter(reachable)
    \/ \E e \in {""} \cup BodyErrors : ConnectionLeave(e)
    \/ Close

ClientSpec == InitClient /\ [][NextClient]_vars

(***************************************************************************)
(* Explorer actions                                                        *)
(***************************************************************************)
\* The (table, column) arguments of the lookups: the columns of users, a
\* column it lacks, a table that does not exist.
Lookups ==
    {<<"users", "id">>, <<"users", "name">>, <<"users", "age">>, <<"ghosts", "id">>}

Queries ==
    {[query |-> SelectByName, params |-> Some([n |-> v])] : v \in Names}
    \cup { [query |-> ScanSql, params |-> Nothing],
           [query |-> BadSql, params |-> Nothing],
           [query |-> InsertSql, params |-> Some([id |-> "2", name |-> Hostile])] }

ObservedHelper(op, out, arg, table, column, value) ==
    [Observed(op, out.query, out.params, out, out.ret)
        EXCEPT !.arg = arg, !.table = table, !.column = column, !.value = value]

Helper(op, out, arg, table, column, value) ==
    /\ db' = out.after
    /\ shadow' = IF "return" \in SeqRange(out.events) /\ "commit" \in SeqRange(out.events)
                 THEN shadow \o out.added ELSE shadow
    /\ lastCall' = ObservedHelper(op, out, arg, table, column, value)
    /\ UNCHANGED <<registry, regLog, lastCreate, client, sess, conn>>

\* explorer.execute(query, params)
Execute(query, params, commit_err) ==
    Helper("execute", ExplorerExecute(client, db, query, params, commit_err),
           query, "", "", "")

\* explorer.fetch_all(query, params)
DoFetchAll(query, params, commit_err) ==
    Helper("fetch_all", FetchAll(client, db, query, params, commit_err),
           query, "", "", "")

\* explorer.fetch_one(query, params)
DoFetchOne(query, params, commit_err) ==
    Helper("fetch_one", FetchOne(client, db, query, params, commit_err),
           query, "", "", "")

\* explorer.find_by_id(table, id_column, id_value)
DoFindById(table, id_column, id_value, commit_err) ==
    Helper("find_by_id", FindById(client, db, table, id_column, id_value, commit_err),
           <<>>, table, id_column, id_value)

\* explorer.exists(table, column, value)
DoExists(table, column, value, commit_err) ==
    Helper("exists", Exists(client, db, table, column, value, commit_err),
           <<>>, table, column, value)

\* The table arguments of count: users, and a table that does not exist.
CountTables == {"users", "ghosts"}

\* explorer.find_all(table, limit)
DoFindAll(table, limit, commit_err) ==
    Helper("find_all", FindAll(client, db, table, limit, commit_err),
           limit, table, "", "")

\* explorer.count(table)
DoCount(table, commit_err) ==
    Helper("count", ExplorerCount(client, db, table, commit_err),
           <<>>, table, "", "")

NextExplorer ==
    \/ \E c \in Calls, e \in CommitErrors : Execute(c.query, c.params, e)
    \/ \E q \in Queries, e \in CommitErrors : DoFetchAll(q.query, q.params, e)
    \/ \E q \in Queries, e \in CommitErrors : DoFetchOne(q.query, q.params, e)
    \/ \E l \in Lookups, v \in Values, e \in CommitErrors :
            DoFindById(l[1], l[2], v, e)
    \/ \E l \in Lookups, v \in Values, e \in CommitErrors :
            DoExists(l[1], l[2], v, e)
    \/ \E t \in CountTables, e \in CommitErrors : DoCount(t, e)
    \/ \E t \in CountTables, l \in {Nothing} \cup {Some(n) : n \in Limits},
          e \in CommitErrors : DoFindAll(t, l, e)

ExplorerSpec == InitExplorer /\ [][NextExplorer]_vars

(***************************************************************************)
(* Properties of the client                                                *)
(***************************************************************************)
Count(q, x) == Cardinality({i \in 1..Len(q) : q[i] = x})

\* x occurs in q, and before every occurrence of y.
Before(q, x, y) ==
    \E i \in 1..Len(q) : q[i] = x /\ \A j \in 1..Len(q) : q[j] = y => i < j

Has(q, x) == x \in SeqRange(q)

\* C1: execute_query runs its statement in one session scope; the scope is
\* committed exactly when neither the statement nor the commit raised, and
\* only then does the statement's effect stay; when either raises, rollback
\* is called before the call leaves, the call leaves by raising, and what it
\* raises is the error of the statement (or of the commit).
C1_CommitIffNoError ==
    lastCall.op = "execute_query" =>
        /\ Count(lastCall.events, "Session") = 1
        /\ Count(lastCall.events, "execute") + Count(lastCall.events, "execute!") = 1
        /\ Has(lastCall.events, "commit")
              <=> (~Has(lastCall.events, "execute!") /\ ~Has(lastCall.events, "commit!"))
        /\ Has(lastCall.events, "commit") <=> lastCall.raised = ""
        /\ lastCall.after # lastCall.before => Has(lastCall.events, "commit")
        /\ (Has(lastCall.events, "execute!") \/ Has(lastCall.events, "commit!")) =>
              /\ Before(lastCall.events, "rollback", "raise")
              /\ lastCall.events[Len(lastCall.events)] = "raise"
              /\ lastCall.after = lastCall.before
              /\ IF Has(lastCall.events, "execute!")
                 THEN lastCall.raised =
                        StatementError(Dialect(client), lastCall.before,
                                       lastCall.bound, Parse(lastCall.sql))
                 ELSE lastCall.raised \in CommitErrors \ {""}

\* An insert that violates the unique id was rolled back and re-raised.
C1_Witness ==
    /\ lastCall.op = "execute_query"
    /\ lastCall.raised = "IntegrityError"
    /\ Has(lastCall.events, "rollback")

\* The rows a batch of parameter sets inserts, in order.
RowsOf(params_list) ==
    [i \in 1..Len(params_list) |->
        [id |-> params_list[i].id, name |-> params_list[i].name]]

\* C2: execute_many is all-or-nothing: when an execution of the batch
\* fails, the committed rows afterwards are the rows before the call,
\* whatever the earlier executions added; when none fails, the batch is
\* committed by one commit in one session and all its rows are there.
C2_AllOrNothing ==
    lastCall.op = "execute_many" =>
        /\ Count(lastCall.events, "Session") = 1
        /\ Has(lastCall.events, "execute!") =>
              /\ lastCall.after = lastCall.before
              /\ ~Has(lastCall.events, "commit")
              /\ lastCall.raised # ""
        /\ ~Has(lastCall.events, "execute!") =>
              /\ Count(lastCall.events, "execute") = Len(lastCall.params)
              /\ Count(lastCall.events, "commit") + Count(lastCall.events, "commit!") = 1
              /\ Has(lastCall.events, "commit") =>
                    lastCall.after = lastCall.before \o RowsOf(lastCall.params)
              /\ Has(lastCall.events, "commit!") => lastCall.after = lastCall.before

\* A batch whose second execution failed after the first had succeeded.
C2_Witness ==
    /\ lastCall.op = "execute_many"
    /\ Before(lastCall.events, "execute", "execute!")
    /\ Has(lastCall.events, "execute!")

\* C3: whenever execute_query, execute_many, a get_session scope or a
\* get_connection scope has been left, by return or by raise, every session
\* or connection it opened has been closed exactly once, before leaving; a
\* scope that is still open has not been closed.
C3_ScopesReleased ==
    /\ lastCall.op \in {"execute_query", "execute_many", "get_session", "get_connection"} =>
          /\ Count(lastCall.events, "Session") + Count(lastCall.events, "connect")
                = Count(lastCall.events, "close")
          /\ Count(lastCall.events, "close") <= 1
          /\ Has(lastCall.events, "close") =>
                \/ Before(lastCall.events, "close", "return")
                \/ Before(lastCall.events, "close", "raise")
          /\ lastCall.op \in {"execute_query", "execute_many", "get_session"} =>
                Count(lastCall.events, "Session") = 1
    /\ sess.state = "open" => ~Has(sess.events, "close")
    /\ conn.state = "open" => ~Has(conn.events, "close")

\* A session scope left by an exception that "except Exception" lets pass.
C3_Witness ==
    /\ lastCall.op = "get_session"
    /\ lastCall.raised = "KeyboardInterrupt"
    /\ Count(lastCall.events, "close") = 1

\* C4: an operation on a client whose close() has been called fails with a
\* closed-resource error, executes no statement and opens no session or
\* connection.
C4_ClosedClientRejects ==
    (lastCall.op # "none" /\ lastCall.disposed) =>
        /\ lastCall.raised = "ClosedResourceError"
        /\ ~Has(lastCall.events, "Session")
        /\ ~Has(lastCall.events, "connect")
        /\ ~Has(lastCall.events, "execute")

\* C5: the committed rows are exactly the rows added by the operations that
\* returned normally; on a client that has not been closed a failed call
\* leaves them as they were, and a call whose statement is valid for the
\* committed rows, and whose commit the backend accepts, returns normally,
\* is committed, and reads the committed rows -- whether or not the call
\* before it failed.
C5_FailureLeavesClientUsable ==
    /\ db = shadow
    /\ (lastCall.op \in {"execute_query", "execute_many"} /\ ~lastCall.disposed) =>
          /\ lastCall.raised # "" => lastCall.after = lastCall.before
          /\ (/\ lastCall.op = "execute_query"
              /\ StatementError(Dialect(client), lastCall.before,
                                lastCall.bound, Parse(lastCall.sql)) = ""
              /\ ~Has(lastCall.events, "commit!")) =>
                /\ lastCall.raised = ""
                /\ Has(lastCall.events, "commit")
                /\ lastCall.ret # Nothing
                /\ lastCall.sql = ScanSql =>
                      lastCall.ret[1].rows = Project("*", lastCall.before)
                /\ lastCall.sql = InsertSql =>
                      lastCall.after = lastCall.before
                            \o <<[id |-> lastCall.bound.id, name |-> lastCall.bound.name]>>

\* A call that committed a row right after a call that failed.
C5_Witness ==
    /\ lastCall.op = "execute_query"
    /\ ~lastCall.disposed
    /\ lastCall.after_failure
    /\ lastCall.raised = ""
    /\ Len(lastCall.after) = Len(lastCall.before) + 1

(***************************************************************************)
(* Properties of the explorer                                              *)
(***************************************************************************)
\* C9: find_by_id and exists hand the client an SQL text that is the same
\* for every value (it is built from the table and the column alone, and
\* the value is no part of it) together with a mapping that binds the
\* value; the client hands that text and that mapping to the session
\* unchanged; fetch_all, fetch_one and execute hand on the caller's text
\* unchanged whatever the parameters are.
C9_ValuesAreBound ==
    /\ lastCall.op = "find_by_id" =>
          /\ \A v \in Values :
                FindByIdRequest(lastCall.table, lastCall.column, v).query
                    = lastCall.query
          /\ ~Has(lastCall.query, lastCall.value)
          /\ lastCall.sql = lastCall.query
          /\ lastCall.params = Some([id_value |-> lastCall.value])
          /\ lastCall.bound = [id_value |-> lastCall.value]
    /\ lastCall.op = "exists" =>
          /\ \A v \in Values :
                ExistsRequest(lastCall.table, lastCall.column, v).query
                    = lastCall.query
          /\ ~Has(lastCall.query, lastCall.value)
          /\ lastCall.sql = lastCall.query
          /\ lastCall.params = Some([value |-> lastCall.value])
          /\ lastCall.bound = [value |-> lastCall.value]
    /\ lastCall.op \in {"fetch_all", "fetch_one", "execute"} =>
          /\ lastCall.query = lastCall.arg
          /\ lastCall.sql = lastCall.arg

\* find_by_id looked up the hostile text as a value, and returned.
C9_Witness ==
    /\ lastCall.op = "find_by_id"
    /\ lastCall.value = Hostile
    /\ lastCall.raised = ""
    /\ lastCall.ret # Nothing

\* C10: exists(table, column, value) returns true if and only if
\* find_by_id(table, column, value) on the same committed rows returns a
\* row (both with a backend that accepts the commit).
C10_ExistsIffFound ==
    (lastCall.op = "exists" /\ ~Has(lastCall.events, "commit!")) =>
        ((lastCall.raised = "" /\ lastCall.ret = Some(TRUE))
            <=> (/\ FindById(client, lastCall.before, lastCall.table,
                             lastCall.column, lastCall.value, "").raised = ""
                 /\ FindById(client, lastCall.before, lastCall.table,
                             lastCall.column, lastCall.value, "").ret # Nothing))

\* C11: when count(table) returns, it returns the number of rows committed
\* in the table: the rows the table started with and those of every insert
\* that was committed, none of a failed or rolled-back one, whatever the
\* rows hold; 0 for the empty table.  It changes no row.
C11_CountIsCommittedRows ==
    (lastCall.op = "count" /\ lastCall.raised = "") =>
        /\ lastCall.ret = Some(Len(shadow))
        /\ lastCall.ret = Some(Len(lastCall.before))
        /\ lastCall.after = lastCall.before
        /\ db = shadow

\* count returned 2 right after a call that failed, one of the two rows
\* holding the hostile text.
C11_Witness ==
    /\ lastCall.op = "count"
    /\ lastCall.raised = ""
    /\ lastCall.ret = Some(2)
    /\ lastCall.after_failure
    /\ \E i \in 1..Len(db) : db[i].name = Hostile

\* count returned 0 for the empty table.
C11_WitnessEmpty ==
    /\ lastCall.op = "count"
    /\ lastCall.raised = ""
    /\ lastCall.ret = Some(0)
    /\ db = <<>>

(***************************************************************************)
(* Properties of the URL builders                                          *)
(***************************************************************************)
Reserved == {"@", ":", "/", " "}

\* The same configuration with every text field free of reserved characters.
PlainKw(kw) == [k \in DOMAIN kw |-> <<"x">>]

\* C12: in the connection URL a builder produces, no reserved character of
\* a username, password, host or server, database name or charset is raw:
\* the URL holds exactly as many raw '@', ':', '/' and spaces as the URL
\* the same builder produces for values without reserved characters (those
\* of the URL's own syntax), whatever the values are.
C12_ReservedEncoded ==
    lastCreate.outcome = "client" =>
        \A ch \in Reserved :
            Count(lastCreate.client.url, ch)
                = Count(BuildConnectionUrl(lastCreate.client.cls,
                                           PlainKw(lastCreate.kw)), ch)

(***************************************************************************)
(* Order of session release and reading                                    *)
(***************************************************************************)
\* The calls that go through execute_query.
QueryOps ==
    {"execute_query", "execute", "fetch_all", "fetch_one", "find_by_id",
     "find_all", "count", "exists"}

\* The reads of a Result: fetchall, fetchone and keys ("!" when it raised).
Reads == {"fetchall", "fetchall!", "fetchone", "fetchone!", "keys"}

\* Before position i of ev the one session was opened, committed and then
\* closed, and no session was opened after that.
ReleasedBefore(ev, i) ==
    \E o, j, k \in 1..(i - 1) :
        /\ o < j /\ j < k
        /\ ev[o] = "Session" /\ ev[j] = "commit" /\ ev[k] = "close"
        /\ \A m \in 1..(i - 1) : ev[m] = "Session" => m = o

\* execute_query has returned before position i of ev.
ReturnedBefore(ev, i) == \E r \in 1..(i - 1) : ev[r] = "return"

\* C13: whenever execute_query returns a result, the session that produced
\* it has been committed and then closed before the return; and every read
\* of rows or column names that fetch_all and fetch_one make (also for
\* find_by_id, find_all, count and exists) comes after that return, so
\* after the commit and the close, never while the session is open.
C13_ReadsAfterRelease ==
    lastCall.op \in QueryOps =>
        \A i \in 1..Len(lastCall.events) :
            /\ lastCall.events[i] = "return" => ReleasedBefore(lastCall.events, i)
            /\ lastCall.events[i] \in Reads =>
                    /\ ReturnedBefore(lastCall.events, i)
                    /\ ReleasedBefore(lastCall.events, i)

\* fetch_all read rows and column names of a result and returned them.
C13_Witness ==
    /\ lastCall.op = "fetch_all"
    /\ lastCall.raised = ""
    /\ Has(lastCall.events, "fetchall")
    /\ Has(lastCall.events, "keys")
    /\ lastCall.ret # Some(<<>>)

====
